---- MODULE Spec2Model ----
(***************************************************************************)
(* The endpoint-fleet reconciler of operator-common: load_balancer::create *)
(* (Create / Update), load_balancer::delete, load_balancer::get_external_ips*)
(* and wait, built on service::deploy and service::delete, run against a   *)
(* control plane that stores Service objects by name and may fail any      *)
(* request.                                                                *)
(***************************************************************************)
EXTENDS Integers, Sequences, FiniteSets, TLC

\* ---------------------------------------------------------------- bounds
\* Largest desired replica count a caller passes; fleets in Init use the
\* indices below it.
MaxReplicas == 3
\* Number of top-level calls made in one behaviour.
MaxCalls == 2
\* Largest replica count passed to get_external_ips.
MaxWaitReplicas == 2
\* Width of the model's usize: TLC integers are 32-bit, so the 64-bit usize
\* of the target is scaled down; a negative i32 still casts far above every
\* index the model can hold.
UsizeBits == 30

\* Indices an endpoint object can have in the model: the runaway scale-up
\* loop of a negative replica count is cut off at IndexCap.
IndexCap == MaxReplicas + 1

\* ------------------------------------------------------- inputs of calls
Name == "db"
Kind == "kubo"
Namespace == "default"
Ports == {4001, 4002}
ReplicaInputs == (-1) .. MaxReplicas

\* Option<T>: None is the empty tuple, Some(x) the one-element tuple.
None == << >>
Some(x) == << x >>
IsSome(o) == Len(o) = 1
Unwrap(o) == o[1]

\* Result<T, E>
Ok(v) == << "Ok", v >>
Err(e) == << "Err", e >>
IsOk(r) == r[1] = "Ok"
IsErr(r) == r[1] = "Err"
Unit == << >>
Pending == << "Pending", Unit >>

\* ------------------------------------------------------------- lib.rs
selector_labels(name, kind) ==
    ("app.kubernetes.io/instance" :> name)
        @@ ("app.kubernetes.io/name" :> ("ipfs-" \o kind \o "-cluster"))

labels(name, kind) ==
    ("app.kubernetes.io/managed-by" :> "ipfs-operator")
        @@ ("app.kubernetes.io/version" :> "0.1.0")
        @@ selector_labels(name, kind)

\* `replicas as usize`: a two's-complement reinterpretation, so a negative
\* count becomes a huge positive bound.
AsUsize(r) == r % (2 ^ UsizeBits)

\* format!("{n}-p2p-{idx}") and format!("{n}-{idx}")
LbName(n, idx) == n \o "-p2p-" \o ToString(idx)
\* (mutant of PodKey: the map keyed by the endpoint object's name)
PodKey_as_LbName(n, idx) == n \o "-p2p-" \o ToString(idx)
PodKey(n, idx) == n \o "-" \o ToString(idx)

\* ----------------------------------------------------- kube / crate errors
\* kube::Error::Api(ErrorResponse) and a non-Api kube::Error (transport).
ApiError(reason, message, code) ==
    [variant |-> "Api", status |-> "Failure", message |-> message,
     reason |-> reason, code |-> code]
NotFoundError == ApiError("NotFound", "services not found", 404)
ForbiddenError == ApiError("Forbidden", "services is forbidden", 403)
TransportError ==
    [variant |-> "Service", status |-> "", message |-> "connection refused",
     reason |-> "", code |-> 0]
\* What the control plane can answer to a request it does not carry out.
Faults == {ForbiddenError, TransportError}

\* crate::Error variants used by the reconciler.
KubeError(e) == [kind |-> "KubeError", source |-> e]
JoinError(text) == [kind |-> "JoinError", source |-> text]
WaitError(text) == [kind |-> "WaitError", source |-> text]
WaitTimeout == [kind |-> "WaitTimeout", source |-> "deadline has elapsed"]
IngressListEmpty == [kind |-> "IngressListEmpty", source |-> ""]
IngressListMissing == [kind |-> "IngressListMissing", source |-> ""]

\* A panic inside a function: it unwinds the task that called it.
Panic(text) == << "Panic", text >>
IsPanic(r) == r[1] = "Panic"

\* ------------------------------------------------------------------ state
VARIABLES
    services,        \* the control plane's Service objects, by name
    pc,              \* where the caller is inside the current top-level call
    op,              \* the current (or last) top-level call and its arguments
    lb_count,        \* create: existing_load_balancers.items.len()
    idx,             \* create / _create: the loop index
    units,           \* the JoinSet: task key -> the task's state and result
    done_q,          \* completed tasks in completion order, not yet joined
    external_addrs,  \* get_external_ips: the map being built
    requests,        \* requests the current call sent, with their answers
    ret,             \* what the last top-level call returned
    calls,           \* top-level calls started so far
    prev,            \* the call before the current one, and what it returned
    pre              \* services as they were when the current call started

vars == << services, pc, op, lb_count, idx, units, done_q, external_addrs,
           requests, ret, calls, prev, pre >>

\* ---------------------------------------------------------- Service objects
\* service::Port -> ServicePort, as deploy's loop builds it.
ServicePortOf(port) ==
    [name |-> Some(port.name), port |-> port.port,
     protocol |-> Some(port.protocol)]

\* The Service that deploy submits: metadata and spec, no status.
ServiceObject(name, namespace, service_type, service_port, lbls) ==
    [name |-> name, namespace |-> namespace, labels |-> lbls[1],
     type |-> service_type,
     ports |-> [i \in 1 .. Len(service_port) |-> ServicePortOf(service_port[i])],
     selector |-> lbls[2]]

\* The arguments _create passes to deploy for index i.
P2pPort(port) == [name |-> "p2p", port |-> port, protocol |-> "TCP"]
PodSelector(name, kind, pod_name) ==
    ("statefulset.kubernetes.io/pod-name" :> pod_name)
        @@ selector_labels(name, kind)
EndpointObject(name, namespace, kind, port, i) ==
    ServiceObject(LbName(name, i), namespace, "LoadBalancer",
                  << P2pPort(port) >>,
                  << labels(name, kind),
                     PodSelector(name, kind, LbName(name, i)) >>)

\* An object as the control plane stores it: the applied fields and the
\* status the platform maintains.
Stored(object, status) == [object |-> object, status |-> status]

\* ------------------------------------------------------------ control plane
\* (mutant of ApiList: the members are looked up by the names of the
\* convention, index by index, not by label)
ApiList_by_index(name) ==
    { n \in DOMAIN services : \E i \in 0 .. IndexCap : n = LbName(name, i) }

\* Api::list with the label selector app.kubernetes.io/instance={name} and
\* the field selector spec.type=LoadBalancer.
ApiList(name) ==
    { n \in DOMAIN services :
        /\ services[n].object.labels["app.kubernetes.io/instance"] = name
        /\ services[n].object.type = "LoadBalancer" }

\* Api::patch with Patch::Apply: create the object or replace the applied
\* fields of the stored one; the status is the platform's and is kept.
ApiPatchApply(n, object) ==
    IF n \in DOMAIN services
    THEN [services EXCEPT ![n] = Stored(object, services[n].status)]
    ELSE (n :> Stored(object, None)) @@ services

\* Api::delete: the answers the control plane can give for name n.
ApiDeleteAnswers(n) ==
    { Err(f) : f \in Faults }
        \cup (IF n \in DOMAIN services THEN { Ok(Unit) } ELSE { Err(NotFoundError) })
ApiDelete(n, answer) ==
    IF IsOk(answer) THEN [m \in DOMAIN services \ {n} |-> services[m]]
    ELSE services

\* ------------------------------------------------------------- service.rs
\* (mutant of service_delete: not-found is not tolerated)
service_delete_strict(answer) ==
    IF IsOk(answer) THEN Ok(Unit) ELSE Err(answer[2])

\* (mutant of service_delete: every error of the delete is ignored)
service_delete_lenient(answer) == Ok(Unit)

\* service::delete, from the control plane's answer to its result.
service_delete(answer) ==
    IF IsOk(answer) THEN Ok(Unit)
    ELSE LET e == answer[2] IN
         IF e.variant = "Api"
         THEN IF e.reason = "NotFound" THEN Ok(Unit) ELSE Err(e)
         ELSE Err(e)

\* (mutant of deploy: the object is created, not applied, so an existing
\* name is refused)
deploy_create(name, namespace, service_type, service_port, lbls, fault) ==
    LET object == ServiceObject(name, namespace, service_type, service_port, lbls)
        after == ApiPatchApply(name, object)
    IN  IF IsSome(fault)
        THEN [result |-> Err(Unwrap(fault)), services |-> services]
        ELSE IF name \in DOMAIN services
        THEN [result |-> Err(ApiError("AlreadyExists", "services already exists", 409)),
              services |-> services]
        ELSE [result |-> Ok(after[name]), services |-> after]

\* service::deploy: build the object and apply it under the field manager
\* `name`; the patch's answer (the observed object, or the error) is
\* returned as it is.  fault is None, or Some(error) when the control plane
\* refuses the request.
deploy(name, namespace, service_type, service_port, lbls, fault) ==
    LET object == ServiceObject(name, namespace, service_type, service_port, lbls)
        after == ApiPatchApply(name, object)
    IN  IF IsSome(fault)
        THEN [result |-> Err(Unwrap(fault)), services |-> services]
        ELSE [result |-> Ok(after[name]), services |-> after]

\* deploy and list hand every error on (or drop it) unread: one fault
\* stands for all.
FaultChoices == { None, Some(TransportError) }

\* A request as the log keeps it: the control plane's answer and what the
\* function that sent it made of the answer.
Request(verb, n, answer, result) ==
    [verb |-> verb, name |-> n, answer |-> answer, result |-> result]

\* ------------------------------------------------------------------- Init
\* What is remembered of the call before the current one.
Summary(o, r) == [fn |-> o.fn, target |-> o.target, port |-> o.port, ok |-> IsOk(r)]

NoOp == [fn |-> "none", action |-> "", replicas |-> 0, port |-> 0, target |-> ""]
\* A task of a JoinSet: its state, the object its condition saw last, and
\* what join_next reports for it.  A task is spawned, then (a wait task)
\* waiting on its watch; it completes as done (a delete task), ready,
\* panicked, elapsed or watch_error (a wait task), or is aborted when the
\* JoinSet is dropped.
Task(st, seen, res) == [st |-> st, seen |-> seen, res |-> res]
Completed(t) == t.st \in { "done", "ready", "panicked", "elapsed", "watch_error" }
Spawned == Task("spawned", None, Pending)
NoUnits == [k \in {} |-> Spawned]
NoAddrs == [k \in {} |-> ""]

\* The port the objects of Init were applied with.
DefaultPort == CHOOSE p \in Ports : \A q \in Ports : p <= q
RogueName == Name \o "-ext"
\* A load balancer that carries the instance's ownership labels under a
\* name outside the {name}-p2p-{index} convention.
RogueObject ==
    ServiceObject(RogueName, Namespace, "LoadBalancer", << P2pPort(DefaultPort) >>,
                  << labels(Name, Kind), selector_labels(Name, Kind) >>)
\* The instance's cluster-internal service: same labels, not a load balancer.
InternalObject ==
    ServiceObject(Name, Namespace, "ClusterIP", << P2pPort(DefaultPort) >>,
                  << labels(Name, Kind), selector_labels(Name, Kind) >>)

\* Fleets left by earlier reconciles, complete or not: any set of indices,
\* with or without the off-convention load balancer.
InitialServices(fleet, rogue) ==
    [n \in { LbName(Name, i) : i \in fleet }
            \cup (IF rogue THEN { RogueName } ELSE {}) \cup { Name } |->
        IF n = Name THEN Stored(InternalObject, None)
        ELSE IF n = RogueName THEN Stored(RogueObject, None)
        ELSE Stored(EndpointObject(Name, Namespace, Kind, DefaultPort,
                        CHOOSE i \in fleet : LbName(Name, i) = n), None)]

Init ==
    /\ \E fleet \in SUBSET (0 .. MaxReplicas - 1), rogue \in BOOLEAN :
          services = InitialServices(fleet, rogue)
    /\ pc = "idle"
    /\ op = NoOp
    /\ lb_count = 0
    /\ idx = 0
    /\ units = NoUnits
    /\ done_q = << >>
    /\ external_addrs = NoAddrs
    /\ requests = {}
    /\ ret = Pending
    /\ calls = 0
    /\ prev = Summary(NoOp, Pending)
    /\ pre = services

\* ------------------------------------------------------- calls and returns
\* A top-level call starts: the caller is idle and has calls left.  The
\* caller is a reconcile loop (or a finalizer) that re-invokes the function
\* it invoked before, with arguments of its choice.
Begin(o) ==
    /\ pc = "idle"
    /\ calls < MaxCalls
    /\ calls > 0 => o.fn = op.fn
    /\ calls' = calls + 1
    /\ prev' = Summary(op, ret)
    /\ pre' = services
    /\ op' = o
    /\ done_q' = << >>
    /\ external_addrs' = NoAddrs

Return(r) ==
    /\ pc' = "idle"
    /\ ret' = r

\* ------------------------------------------------ load_balancer::_create
\* Whether _create's loop `for idx in lower..upper` visits i.
CreateVisits(i, lower, upper) == lower <= i /\ i < upper

\* (mutant of EnterCreate: the loop starts at 0 whatever `lower` is)
EnterCreate_from_zero(lower, upper) ==
    IF CreateVisits(0, 0, upper)
    THEN /\ pc' = "_create"
         /\ idx' = 0
         /\ ret' = Pending
    ELSE /\ Return(Ok(Unit))
         /\ idx' = 0

\* Entering _create(lower, upper): an empty range returns Ok at once.
EnterCreate(lower, upper) ==
    IF CreateVisits(lower, lower, upper)
    THEN /\ pc' = "_create"
         /\ idx' = lower
         /\ ret' = Pending
    ELSE /\ Return(Ok(Unit))
         /\ idx' = lower

\* Dropping a JoinSet aborts the tasks of it that have not completed.
\* (mutant of DropJoinSet: the tasks are detached and run on)
DropJoinSet_detach(us) == us
DropJoinSet(us) ==
    [k \in DOMAIN us |->
        IF Completed(us[k]) THEN us[k] ELSE [us[k] EXCEPT !.st = "aborted"]]

\* (mutant of _create: every index of the range is spawned before the
\* JoinSet is drained, the concurrent fan-out)
_create_fan_out ==
    /\ pc = "_create"
    /\ CreateVisits(idx, idx, AsUsize(op.replicas))
    /\ idx < IndexCap
    /\ units' = [n \in { LbName(Name, i) : i \in { j \in idx .. IndexCap - 1 :
                            CreateVisits(j, idx, AsUsize(op.replicas)) } } |-> Spawned]
                   @@ units
    /\ pc' = "_create_join"
    /\ UNCHANGED << services, op, lb_count, idx, done_q, external_addrs,
                    requests, ret, calls, prev, pre >>

\* The head of one iteration of _create's loop `for idx in lower..upper`:
\* service::deploy for index idx is spawned on the JoinSet, and the caller
\* goes to the join loop inside the iteration.
_create ==
    /\ pc = "_create"
    /\ CreateVisits(idx, idx, AsUsize(op.replicas))
    /\ idx < IndexCap
    /\ units' = (LbName(Name, idx) :> Spawned) @@ units
    /\ pc' = "_create_join"
    /\ UNCHANGED << services, op, lb_count, idx, done_q, external_addrs,
                    requests, ret, calls, prev, pre >>

\* A spawned service::deploy task runs: its apply is answered and the task
\* completes with deploy's result.
deploy_task(n) ==
    /\ pc = "_create_join"
    /\ n \in DOMAIN units
    /\ units[n].st = "spawned"
    /\ \E fault \in FaultChoices :
          LET d == deploy(n, Namespace, "LoadBalancer", << P2pPort(op.port) >>,
                          << labels(Name, Kind), PodSelector(Name, Kind, n) >>,
                          fault)
          IN  /\ services' = d.services
              /\ requests' = requests \cup { Request("apply", n, d.result, d.result) }
              /\ units' = [units EXCEPT ![n] = Task("done", None, Ok(d.result))]
    /\ done_q' = Append(done_q, n)
    /\ UNCHANGED << pc, op, lb_count, idx, external_addrs, ret, calls, prev, pre >>

\* What _create's loop does with one join_next result: Ok(_) of any content
\* is dropped and a JoinError is logged; both arms are `()` and the loop
\* goes on.
create_match(res) == Unit

\* join_next in _create's inner loop: the next completed task is taken;
\* when the set is empty the iteration ends, and after the last index
\* _create returns Ok.
_create_join ==
    /\ pc = "_create_join"
    /\ done_q # << >>
    /\ done_q' = Tail(done_q)
    /\ create_match(units[Head(done_q)].res) = Unit
    /\ IF Len(done_q) = 1 /\ \A n \in DOMAIN units : Completed(units[n])
       THEN /\ idx' = idx + 1
            /\ IF CreateVisits(idx + 1, idx, AsUsize(op.replicas))
               THEN pc' = "_create" /\ UNCHANGED ret
               ELSE Return(Ok(Unit))
       ELSE UNCHANGED << pc, ret, idx >>
    /\ UNCHANGED << services, op, lb_count, units, external_addrs, requests,
                    calls, prev, pre >>

\* ------------------------------------------------- load_balancer::create
\* create(..., ActionType::Create): _create(0, replicas as usize).
create_Create ==
    \E replicas \in ReplicaInputs, port \in { DefaultPort } :
        /\ Begin([fn |-> "create", action |-> "Create", replicas |-> replicas,
                  port |-> port, target |-> ""])
        /\ EnterCreate(0, AsUsize(replicas))
        /\ lb_count' = 0
        /\ requests' = {}
        /\ units' = NoUnits
        /\ UNCHANGED services

\* create(..., ActionType::Update) up to its list request.
create_Update ==
    \E replicas \in ReplicaInputs, port \in { DefaultPort } :
        /\ Begin([fn |-> "create", action |-> "Update", replicas |-> replicas,
                  port |-> port, target |-> ""])
        /\ pc' = "update_list"
        /\ ret' = Pending
        /\ lb_count' = 0
        /\ idx' = 0
        /\ requests' = {}
        /\ units' = NoUnits
        /\ UNCHANGED services

\* The scale-down loop `for idx in (replicas as usize)..lb_count`: where
\* it starts, and whether it visits i.
\* (mutant of ShrinkFirst: the first excess index is skipped)
ShrinkFirst_skip(replicas, count) == AsUsize(replicas) + 1
ShrinkFirst(replicas, count) == AsUsize(replicas)
ShrinkVisits(i, replicas, count) == AsUsize(replicas) <= i /\ i < count

\* existing_load_balancers.items.len()
\* (mutant of ItemsLen: the count is one too many)
ItemsLen_plus_one(items) == Cardinality(items) + 1
ItemsLen(items) == Cardinality(items)

\* The list request of Update and the comparison of lb_count with replicas.
update_list ==
    /\ pc = "update_list"
    /\ \E fault \in FaultChoices :
          IF IsSome(fault)
          THEN /\ Return(Err(KubeError(Unwrap(fault))))
               /\ requests' = { Request("list", Name, Err(Unwrap(fault)),
                                        Err(Unwrap(fault))) }
               /\ UNCHANGED << lb_count, idx >>
          ELSE LET count == ItemsLen(ApiList(Name)) IN
               /\ lb_count' = count
               /\ requests' = { Request("list", Name, Ok(Unit), Ok(Unit)) }
               /\ IF count > AsUsize(op.replicas)
                  THEN /\ pc' = "shrink"
                       /\ idx' = ShrinkFirst(op.replicas, count)
                       /\ UNCHANGED ret
                  ELSE IF count < AsUsize(op.replicas)
                       THEN EnterCreate(count, AsUsize(op.replicas))
                       ELSE Return(Ok(Unit)) /\ UNCHANGED idx
    /\ UNCHANGED << services, op, units, done_q, external_addrs, calls, prev, pre >>

\* One iteration of the scale-down loop: service::delete of {name}-p2p-{idx}
\* awaited in place, `?` returning its error; after the last index the
\* (empty) JoinSet is drained and Ok returned.
update_shrink ==
    /\ pc = "shrink"
    /\ ShrinkVisits(idx, op.replicas, lb_count)
    /\ LET n == LbName(Name, idx) IN
       \E answer \in ApiDeleteAnswers(n) :
          LET r == service_delete(answer) IN
          /\ services' = ApiDelete(n, answer)
          /\ requests' = requests \cup { Request("delete", n, answer, r) }
          /\ IF IsErr(r)
             THEN Return(Err(KubeError(r[2]))) /\ UNCHANGED idx
             ELSE /\ idx' = idx + 1
                  /\ IF ShrinkVisits(idx + 1, op.replicas, lb_count)
                     THEN UNCHANGED << pc, ret >>
                     ELSE Return(Ok(Unit))
    /\ UNCHANGED << op, lb_count, units, done_q, external_addrs, calls, prev, pre >>

\* ------------------------------------------------- load_balancer::delete
\* The error delete builds when join_next yields a JoinError.
JoinSetDeleteError(text) ==
    ApiError("Failed to join set while deleting load balancers", text, 418)

\* delete up to its list request and the spawn of one service::delete per
\* listed object; an empty list returns Ok at once.
delete ==
    /\ Begin([fn |-> "delete", action |-> "", replicas |-> 0, port |-> 0,
              target |-> ""])
    /\ lb_count' = 0
    /\ idx' = 0
    /\ \E fault \in FaultChoices :
          IF IsSome(fault)
          THEN /\ Return(Err(Unwrap(fault)))
               /\ requests' = { Request("list", Name, Err(Unwrap(fault)),
                                        Err(Unwrap(fault))) }
               /\ units' = NoUnits
          ELSE /\ units' = [n \in ApiList(Name) |-> Spawned]
               /\ requests' = { Request("list", Name, Ok(Unit), Ok(Unit)) }
               /\ IF ApiList(Name) = {}
                  THEN Return(Ok(Unit))
                  ELSE pc' = "delete_join" /\ ret' = Pending
    /\ UNCHANGED services

\* A spawned service::delete task runs: its request is answered and the
\* task completes with service::delete's result.
delete_task(n) ==
    /\ pc = "delete_join"
    /\ n \in DOMAIN units
    /\ units[n].st = "spawned"
    /\ \E answer \in ApiDeleteAnswers(n) :
          LET r == service_delete(answer) IN
          /\ services' = ApiDelete(n, answer)
          /\ requests' = requests \cup { Request("delete", n, answer, r) }
          /\ units' = [units EXCEPT ![n] = Task("done", None, Ok(r))]
    /\ done_q' = Append(done_q, n)
    /\ UNCHANGED << pc, op, lb_count, idx, external_addrs, ret, calls, prev, pre >>

\* (mutant of delete_match: the error a task returned ends the loop too)
delete_match_fail_fast(res) ==
    IF IsOk(res)
    THEN IF IsErr(res[2]) THEN Err(res[2][2]) ELSE Ok(Unit)
    ELSE Err(JoinSetDeleteError(res[2]))

\* What delete's loop does with one join_next result: Ok(_) of any
\* content goes on, a JoinError returns the synthetic error.
delete_match(res) ==
    IF IsOk(res) THEN Ok(Unit)
    ELSE Err(JoinSetDeleteError(res[2]))

\* join_next in delete's loop: the next completed task is taken; when the
\* set is empty the call returns Ok.
delete_join ==
    /\ pc = "delete_join"
    /\ done_q # << >>
    /\ LET m == delete_match(units[Head(done_q)].res) IN
       IF IsErr(m)
       THEN Return(m)
       ELSE IF Len(done_q) = 1 /\ \A n \in DOMAIN units : units[n].st = "done"
            THEN Return(Ok(Unit))
            ELSE UNCHANGED << pc, ret >>
    /\ done_q' = Tail(done_q)
    /\ units' = IF IsErr(delete_match(units[Head(done_q)].res))
                THEN DropJoinSet(units) ELSE units
    /\ UNCHANGED << services, op, lb_count, idx, external_addrs,
                    requests, calls, prev, pre >>

\* ---------------------------------------------- direct calls of service.rs
ServiceNames == { LbName(Name, i) : i \in 0 .. MaxReplicas - 1 } \cup { RogueName }

\* service::delete(client, name, namespace)
service_delete_call ==
    \E n \in ServiceNames :
        /\ Begin([fn |-> "service::delete", action |-> "", replicas |-> 0,
                  port |-> 0, target |-> n])
        /\ \E answer \in ApiDeleteAnswers(n) :
              LET r == service_delete(answer) IN
              /\ services' = ApiDelete(n, answer)
              /\ requests' = { Request("delete", n, answer, r) }
              /\ Return(r)
        /\ UNCHANGED << lb_count, idx, units >>

\* service::deploy(client, name, namespace, LoadBalancer, [p2p port], labels)
service_deploy_call ==
    \E i \in 0 .. MaxReplicas - 1, port \in Ports, fault \in FaultChoices :
        LET n == LbName(Name, i)
            d == deploy(n, Namespace, "LoadBalancer", << P2pPort(port) >>,
                        << labels(Name, Kind),
                           PodSelector(Name, Kind, LbName(Name, i)) >>, fault)
        IN  /\ Begin([fn |-> "service::deploy", action |-> "", replicas |-> 0,
                      port |-> port, target |-> n])
            /\ services' = d.services
            /\ requests' = { Request("apply", n, d.result, d.result) }
            /\ Return(d.result)
            /\ UNCHANGED << lb_count, idx, units >>

\* ------------------------------------------- statuses the platform writes
Ingress(ip) == [ip |-> ip]
LbStatus(ingress) == Some([load_balancer |-> Some([ingress |-> ingress])])
StNone == None
StNoLb == Some([load_balancer |-> None])
StNoIngress == LbStatus(None)
StEmpty == LbStatus(Some(<< >>))
StHostname == LbStatus(Some(<< Ingress(None) >>))
StOneIp == LbStatus(Some(<< Ingress(Some("203.0.113.5")) >>))
StTwoIps == LbStatus(Some(<< Ingress(Some("198.51.100.7")),
                             Ingress(Some("203.0.113.5")) >>))
Statuses == { StNone, StNoLb, StNoIngress, StEmpty, StHostname, StOneIp, StTwoIps }

\* --------------------------------------------------- load_balancer::wait
\* (mutant of external_ip_exists: a first entry without an ip, a hostname
\* only, also counts as ready)
external_ip_exists_any_entry(obj) ==
    IF IsSome(obj)
    THEN LET status == Unwrap(obj).status IN
         IF IsSome(status)
         THEN LET lb == Unwrap(status).load_balancer IN
              IF IsSome(lb)
              THEN LET ingress == Unwrap(lb).ingress IN
                   IF IsSome(ingress)
                   THEN IF Len(Unwrap(ingress)) = 0
                        THEN Panic("index out of bounds: the len is 0 but the index is 0")
                        ELSE Ok(TRUE)
                   ELSE Ok(FALSE)
              ELSE Ok(FALSE)
         ELSE Ok(FALSE)
    ELSE Ok(FALSE)

\* The condition external_ip_exists on an observed Option<&Service>:
\* Ok(TRUE), Ok(FALSE), or the panic of indexing an empty Vec.
external_ip_exists(obj) ==
    IF IsSome(obj)
    THEN LET status == Unwrap(obj).status IN
         IF IsSome(status)
         THEN LET lb == Unwrap(status).load_balancer IN
              IF IsSome(lb)
              THEN LET ingress == Unwrap(lb).ingress IN
                   IF IsSome(ingress)
                   THEN IF Len(Unwrap(ingress)) = 0
                        THEN Panic("index out of bounds: the len is 0 but the index is 0")
                        ELSE IF IsSome(Unwrap(ingress)[1].ip) THEN Ok(TRUE)
                             ELSE Ok(FALSE)
                   ELSE Ok(FALSE)
              ELSE Ok(FALSE)
         ELSE Ok(FALSE)
    ELSE Ok(FALSE)

UnwrapPanic == Panic("called Option::unwrap() on a None value")

\* wait's match on what await_condition yielded within the deadline.
wait_match(out) ==
    IF IsErr(out) THEN Err(WaitError(out[2]))
    ELSE LET res == out[2] IN
         IF ~IsSome(res) THEN UnwrapPanic
         ELSE IF ~IsSome(Unwrap(res).status) THEN UnwrapPanic
         ELSE IF ~IsSome(Unwrap(Unwrap(res).status).load_balancer) THEN UnwrapPanic
         ELSE LET ingress == Unwrap(Unwrap(Unwrap(res).status).load_balancer).ingress IN
              IF IsSome(ingress)
              THEN IF Len(Unwrap(ingress)) # 0
                   THEN IF IsSome(Unwrap(ingress)[1].ip)
                        THEN Ok(Unwrap(Unwrap(ingress)[1].ip))
                        ELSE UnwrapPanic
                   ELSE Err(IngressListEmpty)
              ELSE Err(IngressListMissing)

\* (mutant of wait: the elapsed deadline reported as a watch error)
wait_elapsed_as_wait_error(timed) ==
    IF IsErr(timed) THEN Err(WaitError(timed[2]))
    ELSE wait_match(timed[2])

\* wait, from what tokio::time::timeout yielded: Err is Elapsed, which `?`
\* turns into WaitTimeout.
wait(timed) ==
    IF IsErr(timed) THEN Err(WaitTimeout)
    ELSE wait_match(timed[2])

\* The task get_external_ips spawns for index i, as join_next reports it:
\* Ok(the task's result), or Err(JoinError) when the task panicked.
wait_task(n, i, timed) ==
    LET r == wait(timed) IN
    IF IsPanic(r) THEN Err(r[2])
    ELSE IF IsOk(r) THEN Ok(Ok(<< PodKey(n, i), r[2] >>))
    ELSE Ok(r)

\* The object a watch on `name` observes now.
Observed(n) == IF n \in DOMAIN services THEN Some(services[n]) ELSE None

\* A task's await_condition evaluates the condition on the object it
\* observes: the task goes on waiting, or completes (ready, or panicking).
Observe(i, obj) ==
    LET c == external_ip_exists(obj) IN
    IF IsPanic(c)
    THEN /\ units' = [units EXCEPT ![i] = Task("panicked", obj, Err(c[2]))]
         /\ done_q' = Append(done_q, i)
    ELSE IF c[2]
    THEN /\ units' = [units EXCEPT ![i] =
                        Task("ready", obj, wait_task(Name, i, Ok(Ok(obj))))]
         /\ done_q' = Append(done_q, i)
    ELSE /\ units' = [units EXCEPT ![i] = Task("waiting", obj, Pending)]
         /\ UNCHANGED done_q

\* ------------------------------------------ load_balancer::get_external_ips
\* get_external_ips up to the end of its spawn loop; with no task spawned
\* join_next yields None at once and the empty map is returned.
get_external_ips ==
    \E replicas \in (-1) .. MaxWaitReplicas :
        /\ Begin([fn |-> "get_external_ips", action |-> "", replicas |-> replicas,
                  port |-> 0, target |-> ""])
        /\ units' = [i \in 0 .. replicas - 1 |-> Spawned]
        /\ IF replicas > 0
           THEN pc' = "ips_join" /\ ret' = Pending
           ELSE Return(Ok(NoAddrs))
        /\ lb_count' = 0
        /\ idx' = 0
        /\ requests' = {}
        /\ UNCHANGED services

\* A spawned task starts its watch and evaluates the condition on the
\* object as it is now.
wait_start(i) ==
    /\ pc = "ips_join"
    /\ i \in DOMAIN units
    /\ units[i].st = "spawned"
    /\ Observe(i, Observed(LbName(Name, i)))
    /\ UNCHANGED << services, pc, op, lb_count, idx, external_addrs, requests,
                    ret, calls, prev, pre >>

\* The platform writes a new status on an object a task is watching; the
\* watch delivers the change and the task evaluates the condition on it.
platform_update(i) ==
    /\ pc = "ips_join"
    /\ i \in DOMAIN units
    /\ units[i].st = "waiting"
    /\ LbName(Name, i) \in DOMAIN services
    /\ \E st \in Statuses \ { services[LbName(Name, i)].status } :
          /\ services' = [services EXCEPT ![LbName(Name, i)].status = st]
          /\ Observe(i, Some([services[LbName(Name, i)] EXCEPT !.status = st]))
    /\ UNCHANGED << pc, op, lb_count, idx, external_addrs, requests, ret,
                    calls, prev, pre >>

\* The 300 s deadline of a task's tokio::time::timeout elapses.
wait_elapsed(i) ==
    /\ pc = "ips_join"
    /\ i \in DOMAIN units
    /\ units[i].st \in { "spawned", "waiting" }
    /\ units' = [units EXCEPT ![i] =
                   Task("elapsed", units[i].seen, wait_task(Name, i, Err("elapsed")))]
    /\ done_q' = Append(done_q, i)
    /\ UNCHANGED << services, pc, op, lb_count, idx, external_addrs, requests,
                    ret, calls, prev, pre >>

\* The watch of a task fails: await_condition yields its error.
wait_stream_error(i) ==
    /\ pc = "ips_join"
    /\ i \in DOMAIN units
    /\ units[i].st \in { "spawned", "waiting" }
    /\ units' = [units EXCEPT ![i] =
                   Task("watch_error", units[i].seen,
                        wait_task(Name, i, Ok(Err("watch failed"))))]
    /\ done_q' = Append(done_q, i)
    /\ UNCHANGED << services, pc, op, lb_count, idx, external_addrs, requests,
                    ret, calls, prev, pre >>

\* `res??` on one join_next result: the pair to insert, or the error to
\* return (a JoinError, or the task's own error).
ips_match(res) ==
    IF IsErr(res) THEN Err(JoinError(res[2]))
    ELSE res[2]

\* join_next in get_external_ips' loop.  Returning drops the JoinSet, which
\* aborts the tasks still running.
get_external_ips_join ==
    /\ pc = "ips_join"
    /\ done_q # << >>
    /\ LET m == ips_match(units[Head(done_q)].res)
           addrs == IF IsOk(m) THEN (m[2][1] :> m[2][2]) @@ external_addrs
                    ELSE external_addrs
       IN  /\ external_addrs' = addrs
           /\ IF IsErr(m)
              THEN /\ Return(m)
                   /\ units' = DropJoinSet(units)
                   /\ done_q' = << >>
              ELSE /\ done_q' = Tail(done_q)
                   /\ UNCHANGED units
                   /\ IF Len(done_q) = 1 /\ \A i \in DOMAIN units : Completed(units[i])
                      THEN Return(Ok(addrs))
                      ELSE UNCHANGED << pc, ret >>
    /\ UNCHANGED << services, op, lb_count, idx, requests, calls, prev, pre >>

\* ------------------------------------------------------------------- Spec
Next ==
    \/ create_Create
    \/ create_Update
    \/ update_list
    \/ update_shrink
    \/ _create
    \/ \E n \in DOMAIN units : deploy_task(n)
    \/ _create_join
    \/ delete
    \/ \E n \in DOMAIN units : delete_task(n)
    \/ delete_join
    \/ service_delete_call
    \/ service_deploy_call

Spec == Init /\ [][Next]_vars

\* Address discovery: the fleet of Init with any statuses on it.
InitWait ==
    /\ \E fleet \in SUBSET (0 .. MaxWaitReplicas - 1) :
       \E st \in [fleet -> Statuses] :
          services = [n \in DOMAIN InitialServices(fleet, FALSE) |->
                        IF \E i \in fleet : n = LbName(Name, i)
                        THEN Stored(InitialServices(fleet, FALSE)[n].object,
                                    st[CHOOSE i \in fleet : n = LbName(Name, i)])
                        ELSE InitialServices(fleet, FALSE)[n]]
    /\ pc = "idle"
    /\ op = NoOp
    /\ lb_count = 0
    /\ idx = 0
    /\ units = NoUnits
    /\ done_q = << >>
    /\ external_addrs = NoAddrs
    /\ requests = {}
    /\ ret = Pending
    /\ calls = 0
    /\ prev = Summary(NoOp, Pending)
    /\ pre = services

NextWait ==
    \/ get_external_ips
    \/ \E i \in DOMAIN units : wait_start(i)
    \/ \E i \in DOMAIN units : platform_update(i)
    \/ \E i \in DOMAIN units : wait_elapsed(i)
    \/ \E i \in DOMAIN units : wait_stream_error(i)
    \/ get_external_ips_join

\* tokio's timer fires every deadline and the caller's join loop runs
\* whenever a task has completed.
SpecWait ==
    /\ InitWait
    /\ [][NextWait]_vars
    /\ \A i \in 0 .. MaxWaitReplicas : WF_vars(wait_elapsed(i))
    /\ WF_vars(get_external_ips_join)

\* Every fan-out of the reconciler from the fleets of Init: create, delete
\* and the direct calls of Next together with address discovery.
NextFanOut == Next \/ NextWait
SpecFanOut == Init /\ [][NextFanOut]_vars

\* A spawned service::deploy or service::delete task panics before it
\* produces a result (or is aborted from outside): join_next yields a
\* JoinError for it.
task_panic(n) ==
    /\ pc \in { "_create_join", "delete_join" }
    /\ n \in DOMAIN units
    /\ units[n].st = "spawned"
    /\ units' = [units EXCEPT ![n] = Task("panicked", None, Err("task panicked"))]
    /\ done_q' = Append(done_q, n)
    /\ UNCHANGED << services, pc, op, lb_count, idx, external_addrs, requests,
                    ret, calls, prev, pre >>

\* The fan-outs with units that may panic.
NextPanic ==
    \/ NextFanOut
    \/ \E n \in DOMAIN units : task_panic(n)
SpecPanic == Init /\ [][NextPanic]_vars

\* ================================================================= claims
\* The top-level call `fn` has returned and is the last one made.
Returned(fn) == pc = "idle" /\ calls > 0 /\ op.fn = fn
UpdateReturned == Returned("create") /\ op.action = "Update"
RequestsOf(verb) == { q \in requests : q.verb = verb }
NamesOf(verb) == { q.name : q \in RequestsOf(verb) }
\* {name}-p2p-{i}, spelled out
P2p(i) == "db-p2p-" \o ToString(i)
\* The load balancers of the instance among the objects svcs.
ApiListOf(svcs) ==
    { n \in DOMAIN svcs :
        /\ svcs[n].object.labels["app.kubernetes.io/instance"] = "db"
        /\ svcs[n].object.type = "LoadBalancer" }

\* C1: whenever create(..., Update) with replicas >= 0 has returned Ok, the
\* indices of the existing endpoint objects {name}-p2p-{i} are exactly
\* 0 .. replicas-1, whatever the fleet was before.
C1_Convergence ==
    (UpdateReturned /\ op.replicas >= 0 /\ IsOk(ret))
        => { i \in 0 .. IndexCap : P2p(i) \in DOMAIN services } = 0 .. op.replicas - 1

\* C2: when load_balancer::delete has listed N members and some delete
\* failed with an error other than not-found, a delete was attempted for
\* all N and the call returns the aggregate error with the reason
\* "Failed to join set while deleting load balancers".
C2_CollectAllAggregate ==
    (Returned("delete") /\ \E q \in RequestsOf("delete") : IsErr(q.result))
        => /\ NamesOf("delete") = DOMAIN units
           /\ IsErr(ret)
           /\ ret[2].reason = "Failed to join set while deleting load balancers"

\* C6: if the apply of any endpoint object failed during create (Create
\* action, or scale-up branch of Update), create returns an error.
C6_ApplyErrorPropagates ==
    (Returned("create") /\ \E q \in RequestsOf("apply") : IsErr(q.result))
        => IsErr(ret)

IsNotFound(a) == IsErr(a) /\ a[2].variant = "Api" /\ a[2].reason = "NotFound"

\* C3: service::delete returns Ok when the control plane answers NotFound
\* (or carries the delete out) and returns every other error unchanged;
\* a load_balancer::delete that directly follows a load_balancer::delete
\* returns no error over the members, absent or not: the one error it can
\* return is its own list request being refused, before any delete.
C3_IdempotentDelete ==
    /\ Returned("service::delete") =>
          \A q \in requests :
             /\ q.verb = "delete" /\ q.name = op.target
             /\ (IsOk(q.answer) \/ IsNotFound(q.answer)) => IsOk(ret)
             /\ (IsErr(q.answer) /\ ~IsNotFound(q.answer)) =>
                   (IsErr(ret) /\ ret[2] = q.answer[2])
    /\ (Returned("delete") /\ prev.fn = "delete" /\ IsErr(ret)) =>
          /\ RequestsOf("delete") = {}
          /\ \E q \in RequestsOf("list") : IsErr(q.answer) /\ ret[2] = q.answer[2]

\* C3 witness: a second fleet delete in a row has returned Ok, the first
\* having removed every member.
C3_Witness ==
    /\ Returned("delete") /\ calls = 2 /\ prev.fn = "delete" /\ prev.ok
    /\ IsOk(ret)
    /\ DOMAIN units = {}
    /\ \E q \in RequestsOf("list") : IsOk(q.answer)

PreIndices == { i \in 0 .. IndexCap : P2p(i) \in DOMAIN pre }
NowIndices == { i \in 0 .. IndexCap : P2p(i) \in DOMAIN services }
ListAnswered == \E q \in RequestsOf("list") : IsOk(q.answer)

\* The Update call is (or was) in its scale-down branch.
InShrink ==
    /\ op.fn = "create" /\ op.action = "Update" /\ calls > 0
    /\ ListAnswered
    /\ op.replicas >= 0 /\ lb_count > op.replicas

\* C8: in the scale-down branch of Update the delete requests go to the
\* names {name}-p2p-{i}, i from replicas upwards below lb_count, in
\* ascending order with no index skipped, and to all of them once the call
\* has returned Ok; no apply is sent; from the fleet {0,1,2} with
\* replicas = 1 and no delete refused the fleet ends as {0}.
C8_ScaleDown ==
    InShrink =>
        /\ RequestsOf("apply") = {}
        /\ NamesOf("delete") \subseteq { P2p(i) : i \in op.replicas .. lb_count - 1 }
        /\ \A i, j \in op.replicas .. lb_count - 1 :
              (i < j /\ P2p(j) \in NamesOf("delete")) => P2p(i) \in NamesOf("delete")
        /\ (pc = "idle" /\ IsOk(ret)) =>
              NamesOf("delete") = { P2p(i) : i \in op.replicas .. lb_count - 1 }
        /\ (/\ pc = "idle" /\ PreIndices = {0, 1, 2} /\ lb_count = 3
            /\ op.replicas = 1
            /\ \A q \in RequestsOf("delete") : IsOk(q.answer)) =>
              (IsOk(ret) /\ NowIndices = {0})

\* C8 witness: a scale-down has returned Ok having sent a delete for a
\* name that the list did not hold (the name comes from the count).
C8_Witness ==
    /\ InShrink /\ pc = "idle" /\ IsOk(ret)
    /\ Cardinality(NamesOf("delete")) >= 2
    /\ \E n \in NamesOf("delete") : n \notin DOMAIN pre

\* C9: the Create action sends applies for the indices 0 .. replicas-1 and
\* the scale-up branch of Update for lb_count .. replicas-1, for all of them
\* once the call has returned, and neither sends a delete; from the empty
\* fleet with replicas = 3 and no apply refused the fleet ends as {0,1,2}.
C9_ScaleUp ==
    /\ (op.fn = "create" /\ op.action = "Create" /\ calls > 0 /\ op.replicas >= 0) =>
          /\ RequestsOf("delete") = {}
          /\ NamesOf("apply") \subseteq { P2p(i) : i \in 0 .. op.replicas - 1 }
          /\ pc = "idle" =>
                NamesOf("apply") = { P2p(i) : i \in 0 .. op.replicas - 1 }
    /\ (/\ op.fn = "create" /\ op.action = "Update" /\ calls > 0 /\ ListAnswered
        /\ op.replicas >= 0 /\ lb_count < op.replicas) =>
          /\ RequestsOf("delete") = {}
          /\ NamesOf("apply") \subseteq { P2p(i) : i \in lb_count .. op.replicas - 1 }
          /\ pc = "idle" =>
                NamesOf("apply") = { P2p(i) : i \in lb_count .. op.replicas - 1 }
    /\ (/\ Returned("create") /\ op.replicas = 3
        /\ ApiListOf(pre) = {}
        /\ op.action = "Update" => ListAnswered
        /\ \A q \in RequestsOf("apply") : IsOk(q.answer)) =>
          (IsOk(ret) /\ NowIndices = {0, 1, 2})

\* C9 witness: an Update that found one endpoint object has returned from
\* scaling up to three.
C9_Witness ==
    /\ UpdateReturned /\ ListAnswered /\ lb_count = 1 /\ op.replicas = 3
    /\ Cardinality(RequestsOf("apply")) = 2

\* C10: service::deploy returns no error but the control plane's own
\* refusal of the request (never one caused by the object existing), and
\* a deploy that repeats the arguments of the successful deploy before it
\* leaves the control plane holding the objects it held after the first.
C10_IdempotentApply ==
    Returned("service::deploy") =>
        /\ IsErr(ret) => (ret[2] \in Faults /\ services = pre)
        /\ IsOk(ret) => ret[2] = services[op.target]
        /\ (/\ calls = 2 /\ prev.fn = "service::deploy" /\ prev.ok
            /\ prev.target = op.target /\ prev.port = op.port) =>
              (IsOk(ret) => services = pre)

\* C10 witness: the same definition (with a port other than the one the
\* fleet of Init was applied with) has been applied twice with success.
C10_Witness ==
    /\ Returned("service::deploy") /\ calls = 2 /\ prev.fn = "service::deploy"
    /\ prev.ok /\ IsOk(ret)
    /\ prev.target = op.target /\ prev.port = op.port /\ op.port # DefaultPort
    /\ services[op.target].object.ports[1].port = op.port

\* The condition of task t last saw an object whose status is present and
\* whose address list is present and empty.
SawEmptyList(t) ==
    /\ IsSome(t.seen)
    /\ IsSome(Unwrap(t.seen).status)
    /\ IsSome(Unwrap(Unwrap(t.seen).status).load_balancer)
    /\ Unwrap(Unwrap(Unwrap(t.seen).status).load_balancer).ingress = Some(<< >>)

\* C4: a wait whose object has a status with an empty address list returns
\* Error::IngressListEmpty: its task completes with that error, not with a
\* panic (a join failure), a timeout or a watch error, and does not go on
\* waiting.
C4_AddressListEmpty ==
    \A i \in DOMAIN units :
        (op.fn = "get_external_ips" /\ SawEmptyList(units[i])) =>
            /\ Completed(units[i])
            /\ IsOk(units[i].res)
            /\ IsErr(units[i].res[2])
            /\ units[i].res[2][2].kind = "IngressListEmpty"

WaitIndices == 0 .. op.replicas - 1

\* What C5 says of a state: no Ok while a replica is not ready; a timeout
\* error when a deadline elapsed and nothing else failed; the caller is
\* never left in its join loop with no task to wait for.
C5_State ==
    /\ (Returned("get_external_ips") /\ \E k \in WaitIndices : units[k].st # "ready")
          => IsErr(ret)
    /\ (/\ Returned("get_external_ips")
        /\ \E k \in WaitIndices : units[k].st = "elapsed"
        /\ \A j \in WaitIndices : units[j].st \in { "ready", "elapsed", "aborted" })
          => /\ IsErr(ret)
             /\ ret[2].kind = "WaitTimeout"
             /\ ret[2].kind \notin { "WaitError", "KubeError", "JoinError",
                                     "IngressListEmpty", "IngressListMissing" }
    /\ pc = "ips_join"
          => (done_q # << >> \/ \E i \in WaitIndices : units[i].st \in { "spawned", "waiting" })

\* C5: if some replica never becomes ready before its deadline,
\* get_external_ips returns (it never blocks forever), with an error, and
\* with the timeout error WaitTimeout when no task failed otherwise.
C5_Timeout == [](C5_State) /\ ((pc = "ips_join") ~> (pc = "idle"))

\* C5 witness: the call has returned WaitTimeout for a replica whose
\* deadline elapsed while another replica was ready.
C5_Witness ==
    /\ Returned("get_external_ips") /\ IsErr(ret) /\ ret[2].kind = "WaitTimeout"
    /\ \E k, j \in WaitIndices : units[k].st = "elapsed" /\ units[j].st = "ready"

\* The first address of a status that has one.
FirstIp(status) ==
    Unwrap(Unwrap(Unwrap(Unwrap(status).load_balancer).ingress)[1].ip)

\* C7: when get_external_ips returns Ok, the map holds exactly the keys
\* {name}-{i} for i in 0 .. replicas-1, and the value of {name}-{i} is the
\* first address of the status of {name}-p2p-{i} that made the condition
\* true.
C7_AddressMap ==
    (Returned("get_external_ips") /\ IsOk(ret)) =>
        /\ DOMAIN ret[2] = { "db-" \o ToString(i) : i \in WaitIndices }
        /\ Cardinality(DOMAIN ret[2]) = Cardinality(WaitIndices)
        /\ \A i \in WaitIndices :
              /\ ret[2]["db-" \o ToString(i)] = FirstIp(Unwrap(units[i].seen).status)
              /\ ret[2]["db-" \o ToString(i)] = FirstIp(services[P2p(i)].status)

\* C7 witness: Ok for two replicas, one of them with two addresses.
C7_Witness ==
    /\ Returned("get_external_ips") /\ IsOk(ret) /\ op.replicas = 2
    /\ services[P2p(0)].status = StTwoIps
    /\ ret[2]["db-0"] = "198.51.100.7"
    /\ services[P2p(1)].status = StOneIp

\* A task that has completed without a pair for the map: it panicked, or
\* its wait returned an error.
UnitFailed(t) == Completed(t) /\ (IsErr(t.res) \/ IsErr(t.res[2]))
\* A task that is still running.
Running(t) == t.st \in { "spawned", "waiting" }
\* The completed tasks that join_next has not yielded yet.
Unjoined == { done_q[k] : k \in 1 .. Len(done_q) }

\* What C11 says of a state: after get_external_ips has returned an error
\* none of its tasks is running; while it is in its join loop every failed
\* task is still to be joined (no failure has been joined and passed over).
C11_State ==
    /\ (Returned("get_external_ips") /\ IsErr(ret)) =>
          \A i \in DOMAIN units : ~Running(units[i])
    /\ (op.fn = "get_external_ips" /\ pc = "ips_join") =>
          \A i \in DOMAIN units : UnitFailed(units[i]) => i \in Unjoined

\* What C11 says of a step: the call returns an error only by joining a
\* failed task, the first to have failed, and returns that task's failure;
\* and while the first unjoined task is a failed one, no step joins
\* anything and stays in the loop.
C11_Step ==
    /\ (op.fn = "get_external_ips" /\ pc = "ips_join" /\ pc' = "idle" /\ IsErr(ret')) =>
          /\ done_q # << >>
          /\ UnitFailed(units[Head(done_q)])
          /\ ret' = ips_match(units[Head(done_q)].res)
    /\ (/\ op.fn = "get_external_ips" /\ pc = "ips_join" /\ pc' = "ips_join"
        /\ done_q # << >> /\ UnitFailed(units[Head(done_q)])) =>
          /\ Len(done_q') >= Len(done_q)
          /\ Head(done_q') = Head(done_q)
          /\ external_addrs' = external_addrs

\* C11: get_external_ips returns the failure of the first task that
\* completed with one, at the join of that task, without waiting for the
\* tasks still running, and after it has returned none of them runs.
C11_FailFast == [](C11_State) /\ [][C11_Step]_vars

\* C11 witness: the call has returned the failure of one task while the
\* other had not completed, and that one was aborted.
C11_Witness ==
    /\ Returned("get_external_ips") /\ IsErr(ret) /\ op.replicas = 2
    /\ \E i, j \in DOMAIN units :
          /\ UnitFailed(units[i]) /\ ret = ips_match(units[i].res)
          /\ units[j].st = "aborted"

\* A unit of the current call's fan-out panicked (or was aborted from
\* outside) without producing a result.
SomeUnitPanicked == \E n \in DOMAIN units : units[n].st = "panicked"
\* A unit of the current call returned an error of its own.
SomeUnitReturnedErr ==
    \E n \in DOMAIN units :
        /\ Completed(units[n]) /\ IsOk(units[n].res) /\ IsErr(units[n].res[2])

C12_InDelete ==
    (Returned("delete") /\ SomeUnitPanicked) =>
        /\ IsErr(ret)
        /\ ret[2].reason = "Failed to join set while deleting load balancers"
        /\ ret[2] \notin Faults \cup { NotFoundError }
C12_InDiscovery ==
    (Returned("get_external_ips") /\ SomeUnitPanicked /\ ~SomeUnitReturnedErr) =>
        /\ IsErr(ret)
        /\ ret[2].kind = "JoinError"
C12_InCreate ==
    (Returned("create") /\ SomeUnitPanicked) =>
        /\ IsErr(ret)
        /\ ret[2].kind = "JoinError"

\* C12: in each fan-out (scale-up creation, address discovery, fleet
\* delete) a unit that panicked without a result makes the top-level call
\* return a join failure, an error that no unit returns as its own.
C12_JoinFailureDistinct == C12_InCreate /\ C12_InDiscovery /\ C12_InDelete

\* The Update call has listed as many endpoint objects as are desired.
ListedAsDesired ==
    /\ op.fn = "create" /\ op.action = "Update" /\ calls > 0
    /\ ListAnswered
    /\ Cardinality(ApiListOf(pre)) = op.replicas

\* C13: an Update whose list holds exactly `replicas` endpoint objects has
\* returned Ok on the answer of the list, has sent no apply and no delete,
\* and has left every object of the control plane as it was.
C13_UpdateNoOp ==
    ListedAsDesired =>
        /\ pc = "idle" /\ IsOk(ret)
        /\ RequestsOf("apply") = {} /\ RequestsOf("delete") = {}
        /\ Cardinality(requests) = 1
        /\ services = pre

\* C13 witness: an Update for two replicas has returned on a fleet of two
\* endpoint objects.
C13_Witness ==
    /\ ListedAsDesired /\ pc = "idle" /\ op.replicas = 2 /\ lb_count = 2
    /\ IsOk(ret)

\* C14: load_balancer::delete sends delete requests to the names the label
\* query returned and to no other name, one request for each name once it
\* has returned: also to a name outside the {name}-p2p-{index} convention,
\* and not to the names of the indices missing from the fleet.
C14_DeleteListedSet ==
    (op.fn = "delete" /\ calls > 0) =>
        /\ NamesOf("delete") \subseteq ApiListOf(pre)
        /\ Cardinality(RequestsOf("delete")) = Cardinality(NamesOf("delete"))
        /\ ListAnswered => DOMAIN units = ApiListOf(pre)
        /\ (pc = "idle" /\ ListAnswered) => NamesOf("delete") = ApiListOf(pre)

\* C14 witness: a fleet delete has returned on a fleet with a gap (index 1
\* without index 0) and an off-convention member, having sent a delete to
\* both members.
C14_Witness ==
    /\ Returned("delete") /\ ListAnswered
    /\ ApiListOf(pre) = { "db-ext", P2p(1) }
    /\ NamesOf("delete") = { "db-ext", P2p(1) }

InCreate == op.fn = "create" /\ calls > 0
\* The deploy tasks spawned and not completed.
InFlight == { n \in DOMAIN units : units[n].st = "spawned" }
\* The first index of the current call's _create range.
CreateLower == IF op.action = "Create" THEN 0 ELSE lb_count

\* What C15 says of a state: at most one deploy task is in flight; while
\* one is, every other task of the call has completed and has been joined;
\* the tasks spawned so far are those of a run of consecutive indices that
\* starts at the lower end of the range; every apply sent is a task's.
C15_State ==
    InCreate =>
        /\ Cardinality(InFlight) <= 1
        /\ \A n \in InFlight : \A m \in DOMAIN units \ {n} :
              Completed(units[m]) /\ m \notin Unjoined
        /\ \E k \in 0 .. IndexCap + 1 :
              DOMAIN units = { P2p(i) : i \in CreateLower .. k - 1 }
        /\ NamesOf("apply") \subseteq DOMAIN units

\* What C15 says of a step: a step that spawns, spawns one task, that of
\* the index after the indices spawned before it.
C15_Step ==
    (InCreate /\ calls' = calls /\ DOMAIN units' # DOMAIN units) =>
        /\ DOMAIN units' = DOMAIN units \cup { P2p(idx) }
        /\ \A i \in 0 .. IndexCap : P2p(i) \in DOMAIN units => i < idx

\* C15: _create drains the JoinSet inside each iteration, so at most one
\* apply task is in flight, the task of index i+1 is spawned only after the
\* task of index i has completed and been joined, and the indices are
\* taken in ascending order.
C15_SerializedScaleUp == [](C15_State) /\ [][C15_Step]_vars

\* C15 witness: the task of index 1 is in flight, the task of index 0
\* having completed and been joined, with a third index still to come.
C15_Witness ==
    /\ InCreate /\ pc = "_create_join" /\ op.replicas = 3
    /\ DOMAIN units = { P2p(0), P2p(1) }
    /\ units[P2p(0)].st = "done" /\ units[P2p(1)].st = "spawned"
    /\ done_q = << >>

InFanOut(fn, at) == op.fn = fn /\ calls > 0 /\ pc = at
\* The endpoint object that unit k of the current fan-out works on.
ObjectOf(k) == IF op.fn = "get_external_ips" THEN P2p(k) ELSE k

\* What C16 says of a step of a unit (a step inside a fan-out that changes
\* the units): it changes one unit and no object but that unit's own, so
\* the steps of distinct units commute.
C16_Step ==
    (/\ InFanOut("delete", "delete_join") \/ InFanOut("get_external_ips", "ips_join")
     /\ pc' = pc /\ units' # units) =>
        \E k \in DOMAIN units :
            /\ \A m \in DOMAIN units \ {k} : units'[m] = units[m]
            /\ \A n \in (DOMAIN services \cup DOMAIN services') \ { ObjectOf(k) } :
                  /\ n \in DOMAIN services /\ n \in DOMAIN services'
                  /\ services'[n] = services[n]

\* What C16 says of a fleet delete that has returned: every listed unit ran
\* to completion, each answered as its own object of the listed fleet
\* allows (never not-found on account of another unit), the objects left
\* are those of the fleet but the ones whose delete was carried out, and
\* the call returned Ok: functions of the units' outcomes, not their order.
C16_Delete ==
    (Returned("delete") /\ ListAnswered) =>
        /\ \A n \in ApiListOf(pre) : units[n].st = "done"
        /\ \A q \in RequestsOf("delete") :
              q.answer \in { Ok(Unit) } \cup { Err(f) : f \in Faults }
        /\ DOMAIN services =
              DOMAIN pre \ { q.name : q \in { r \in RequestsOf("delete") : IsOk(r.answer) } }
        /\ \A n \in DOMAIN services : services[n] = pre[n]
        /\ IsOk(ret)

\* What C16 says of an address discovery that has returned: the objects are
\* those of before, applied fields unchanged, and the call returned Ok if
\* every unit completed ready and an error if some unit failed.
C16_Discovery ==
    Returned("get_external_ips") =>
        /\ DOMAIN services = DOMAIN pre
        /\ \A n \in DOMAIN services : services[n].object = pre[n].object
        /\ IsOk(ret) <=> (\A i \in WaitIndices :
                              units[i].st = "ready" /\ ~UnitFailed(units[i]))
        /\ IsErr(ret) <=> (\E i \in WaitIndices : UnitFailed(units[i]))

\* C16: in fleet delete and in address discovery the units work on
\* distinct objects and their steps commute, and the final set of endpoint
\* objects and the Ok-or-error of the call are determined by the units'
\* outcomes, whatever the order in which they ran and completed.
C16_Independence == [](C16_Delete /\ C16_Discovery) /\ [][C16_Step]_vars

\* C16 witness: a fleet delete of three members has returned Ok with the
\* delete of one member refused and the others carried out.
C16_Witness ==
    /\ Returned("delete") /\ ListAnswered /\ IsOk(ret)
    /\ Cardinality(ApiListOf(pre)) = 3
    /\ \E q \in RequestsOf("delete") : IsErr(q.answer)
    /\ Cardinality({ q \in RequestsOf("delete") : IsOk(q.answer) }) = 2
    /\ Cardinality(ApiListOf(services)) = 1

\* C17: for every replicas, negative ones included, every endpoint object
\* that create applies has an index i with 0 <= i < replicas; with
\* replicas <= 0 create applies nothing and is never in its creation loop.
C17_IndexBound ==
    InCreate =>
        /\ \A n \in NamesOf("apply") \cup DOMAIN units :
              \E i \in 0 .. op.replicas - 1 : n = P2p(i)
        /\ op.replicas <= 0 =>
              /\ NamesOf("apply") = {}
              /\ pc \notin { "_create", "_create_join" }

\* A delete request that the control plane refused with an error other
\* than not-found.
Refused(q) == q.verb = "delete" /\ IsErr(q.answer) /\ ~IsNotFound(q.answer)

\* What C18 says of a state of the scale-down branch: once a delete is
\* refused the call has returned that error (as Error::KubeError), no delete
\* for a greater index was sent, and no other delete was refused.
C18_State ==
    InShrink =>
        \A q \in RequestsOf("delete") :
            Refused(q) =>
                /\ pc = "idle"
                /\ ret = Err(KubeError(q.answer[2]))
                /\ \A k, j \in 0 .. IndexCap :
                      (q.name = P2p(k) /\ j > k) => P2p(j) \notin NamesOf("delete")
                /\ \A r \in RequestsOf("delete") \ {q} : ~Refused(r)

\* What C18 says of a step of the scale-down branch: it sends at most one
\* delete, to the index idx, greater than every index sent to before.
C18_Step ==
    (InShrink /\ calls' = calls /\ requests' # requests) =>
        /\ \E q \in requests' : requests' = requests \cup {q}
                                  /\ q.verb = "delete" /\ q.name = P2p(idx)
        /\ \A i \in 0 .. IndexCap : P2p(i) \in NamesOf("delete") => i < idx

\* C18: the scale-down branch of Update sends its deletes one at a time in
\* ascending index order, and when the delete of index k is refused with an
\* error other than not-found the call returns that error at once, with no
\* delete sent for an index above k.
C18_ShrinkAborts == [](C18_State) /\ [][C18_Step]_vars

\* C18 witness: a scale-down over the indices 0, 1, 2 has returned the
\* error of the refused delete of index 1, index 0 deleted, index 2 kept.
C18_Witness ==
    /\ InShrink /\ pc = "idle" /\ IsErr(ret)
    /\ op.replicas = 0 /\ lb_count = 3
    /\ NamesOf("delete") = { P2p(0), P2p(1) }
    /\ \E q \in RequestsOf("delete") : q.name = P2p(1) /\ Refused(q)
    /\ NowIndices = {1, 2}

\* C19: on every object that a task's condition has seen and on which
\* external_ip_exists is true, wait's extraction yields Ok with the first
\* address of the list (no IngressListEmpty, no IngressListMissing, no
\* failed unwrap), and the task has completed with that address.
C19_PredicateExtraction ==
    op.fn = "get_external_ips" =>
        \A i \in DOMAIN units :
            LET obj == units[i].seen
                c == external_ip_exists(obj)
            IN  (IsOk(c) /\ c[2]) =>
                    /\ IsOk(wait_match(Ok(obj)))
                    /\ wait_match(Ok(obj))[2] = FirstIp(Unwrap(obj).status)
                    /\ units[i].st = "ready"
                    /\ IsOk(units[i].res) /\ IsOk(units[i].res[2])
                    /\ units[i].res[2][2][2] = FirstIp(Unwrap(obj).status)

\* C19 witness: a task has completed ready on an object with two addresses,
\* with the first of them, after having seen the object without any.
C19_Witness ==
    /\ InFanOut("get_external_ips", "ips_join")
    /\ \E i \in DOMAIN units :
          /\ units[i].st = "ready"
          /\ Unwrap(units[i].seen).status = StTwoIps
          /\ units[i].res[2][2][2] = "198.51.100.7"
          /\ pre[P2p(i)].status = StHostname
====
